---- MODULE Spec2Model ----
(***************************************************************************)
(* Model of the client-side navigation and rendering engine of             *)
(* scripts/AnimeNotifier.ts: the navigation controller (diff, post,        *)
(* reloadContent, reloadPage, loading), the visibility lazy-loader, the    *)
(* staggered mount scheduler (modifyDelayed) and the action dispatcher     *)
(* (assignActions).                                                        *)
(*                                                                         *)
(* The browser is single threaded: every action below is one event-loop    *)
(* task (a call made by a UI handler, a timer, a settled fetch, an         *)
(* animation frame) together with the microtasks it triggers.              *)
(***************************************************************************)
EXTENDS Integers, Sequences, FiniteSets, TLC

VARIABLES
    \* ---- navigation controller (AnimeNotifier + app.currentPath) ----
    started,                      \* run() has executed (document interactive)
    isLoading,                    \* this.isLoading
    currentPath,                  \* this.app.currentPath
    diffCompletedForCurrentPath,  \* this.diffCompletedForCurrentPath
    lastReloadContentPath,        \* this.lastReloadContentPath
    content,                      \* markup last handed to the patcher for the live tree
    history,                      \* entries pushed with history.pushState
    ops,                          \* every asynchronous call issued so far, in issue order
    returned,                     \* what the last step returned, when it was a call that did nothing
    cap,                          \* number of asynchronous calls this run may issue
    \* ---- visibility lazy-loader ----
    ioSupported,                  \* "IntersectionObserver" in window
    inDom,                        \* lazy elements currently in the document
    observed,                     \* targets of this.visibilityObserver
    hasCallback,                  \* elements carrying a "became visible" property
    invoked,                      \* per element: calls of its "became visible" callback
    observes,                     \* per element: calls of visibilityObserver.observe
    survived,                     \* per element: it was kept in place by a patch
    \* ---- staggered mount scheduler (one call of modifyDelayed) ----
    mPhase,                       \* "idle", "loop" (lines 663-690) or "scheduled"
    start,                        \* let start = Date.now()
    mountableTypes,               \* Map<string, number>: last time given out per type
    mountableTypeMutations,       \* Map<string, Array>: the times queued per type
    mSeen,                        \* elements of the input the loop has taken so far
    mCap,                         \* number of elements the input of this call may hold
    clock,                        \* Date.now()
    mutationIndex,                \* per type: let mutationIndex of its updateBatch
    framePending,                 \* per type: an animation frame is requested for it
    revealed,                     \* per type: the calls of func, as <<queue index, time>>
    \* ---- action dispatcher ----
    decl,                         \* per element: dataset.trigger and dataset.action
    assigned,                     \* per element: element["action assigned"]
    listeners,                    \* per element: listeners added with addEventListener
    onclick,                      \* per element: element.onclick is set
    nextHandler,                  \* identity of the next handler closure
    statusMessage,                \* text last shown with statusMessage.showError
    bindPasses,                   \* calls of assignActions so far (2 stands for 2 or more)
    stable,                       \* per element: its declaration never changed
    firstHandler,                 \* per element: the first handler registered on it
    synced,                       \* a bind pass has run since the last declaration change
    \* ---- one live node of the content subtree ----
    nodeClasses,                  \* its classList
    nodeAttrs,                    \* its attributes
    lastPatch,                    \* the target the last step patched it to, if it was a patch
    \* ---- one lazy image (lazyLoadImage) and the mutation queue ----
    imgClasses,                   \* its classList
    imgSrc,                       \* element.src
    imgLoad,                      \* what the browser has of imgSrc: naturalWidth, pending event
    imgHandlers,                  \* element.onload and element.onerror are assigned
    imgQueue,                     \* Diff.mutations: the queued class mutations of the image
    imgResolved                   \* calls of its "became visible" callback

navVars == <<started, isLoading, currentPath, diffCompletedForCurrentPath,
             lastReloadContentPath, content, history, ops, returned, cap>>

lazyVars == <<ioSupported, inDom, observed, hasCallback, invoked, observes, survived>>

mountVars == <<mPhase, start, mountableTypes, mountableTypeMutations, mSeen, mCap,
               clock, mutationIndex, framePending, revealed>>

bindVars == <<decl, assigned, listeners, onclick, nextHandler, statusMessage,
              bindPasses, stable, firstHandler, synced>>

nodeVars == <<nodeClasses, nodeAttrs, lastPatch>>

imgVars == <<imgClasses, imgSrc, imgLoad, imgHandlers, imgQueue, imgResolved>>

vars == <<navVars, lazyVars, mountVars, bindVars, nodeVars, imgVars>>

(***************************************************************************)
(* Bounds of the model.                                                    *)
(***************************************************************************)
MaxOps == 3        \* asynchronous calls (diff, reload, post) issued in one run
MaxCallOps == 2    \* the same, in the runs that also make the calls that return at once
MaxFairOps == 2    \* the same, in the runs checked under fairness
MaxPopOps == 2     \* the same, in the runs with the back and forward buttons
MaxObserve == 3    \* observe calls on one element during its lifetime
MaxResolved == 2   \* calls of the "became visible" callback of one image
MaxElems == 59     \* elements handed to one call of modifyDelayed
MaxFrameElems == 4 \* the same, in the runs that follow the animation frames
MaxHandlers == 3   \* handler closures created in one run

(***************************************************************************)
(* Inputs.                                                                 *)
(***************************************************************************)
OriginalPath == "/"
Paths == {"/", "/anime/1"}
PostUrls == {"/api/inventory/use/0"}
LazyElems == {"img1", "iframe1"}
MountTypes == {"general", "card"}
BindElems == {"link", "button"}
ElemOrder == <<"link", "button">>
tagName == [e \in BindElems |-> IF e = "link" THEN "A" ELSE "BUTTON"]
Triggers == {"", "click", "input"}
KnownActions == {"search", "darkTheme"}
ActionNames == {""} \cup KnownActions \cup {"bogus"}
NoAction == [trigger |-> "", action |-> "", handler |-> 0]
ClassNames == {"mounted", "element-found", "active", "lazy"}
AttrNames == {"src", "alt"}
Absent == "<absent>"
AttrValues == [src : {Absent, "", "/images/a.png", "/images/b.png"}, alt : {Absent, "cover"}]
NoPatch == [classes |-> {"<none>"}, attrs |-> [src |-> Absent, alt |-> Absent]]
StartTimes == {0, 7}
TickSteps == {6, 18}
NotSet == -1
NoPath == "<none>"

(***************************************************************************)
(* Navigation controller                                                   *)
(***************************************************************************)

\* "/_" + url  (diff) and "/_" + path (reloadContent)
FragmentUrl(path) == "/_" \o path

ReloadHeadersSwapped(cached) ==
    IF cached THEN {<<"X-Reload", "true">>} ELSE {<<"X-CacheOnly", "true">>}

\* reloadContent, lines 421-427: the headers of reloadContent(cached)
ReloadHeaders(cached) ==
    IF ~cached THEN {<<"X-Reload", "true">>} ELSE {<<"X-CacheOnly", "true">>}

NoOp == [kind |-> "none", path |-> NoPath, url |-> "", method |-> "GET",
         headers |-> {}, cached |-> FALSE, pc |-> "done", result |-> "pending",
         outcome |-> "none", emits |-> 0, after |-> {}, overtaken |-> "no",
         status |-> 0]

OpIds == 1..Len(ops)
InFlight(i) == ops[i].pc # "done"

\* loading(newState): only the flag is state of the controller
loading(newState) == isLoading' = newState

InitNav ==
    /\ started = FALSE
    /\ isLoading = TRUE
    /\ currentPath = OriginalPath
    /\ diffCompletedForCurrentPath = FALSE
    /\ lastReloadContentPath = NoPath
    /\ content = [path |-> OriginalPath, by |-> 0]
    /\ history = <<>>
    /\ ops = <<>>
    /\ returned = ""

\* The other components at rest: an empty document, nothing observed
LazyIdle ==
    /\ ioSupported = TRUE
    /\ inDom = {}
    /\ observed = {}
    /\ hasCallback = {}
    /\ invoked = [e \in LazyElems |-> 0]
    /\ observes = [e \in LazyElems |-> 0]
    /\ survived = [e \in LazyElems |-> FALSE]

\* modifyDelayed has not been called
MountAtRest ==
    /\ mPhase = "idle"
    /\ start = 0
    /\ mountableTypes = [t \in MountTypes |-> NotSet]
    /\ mountableTypeMutations = [t \in MountTypes |-> <<>>]
    /\ mSeen = 0
    /\ clock = 0
    /\ mutationIndex = [t \in MountTypes |-> 0]
    /\ framePending = [t \in MountTypes |-> FALSE]
    /\ revealed = [t \in MountTypes |-> <<>>]

MountIdle == MountAtRest /\ mCap = 0

BindIdle ==
    /\ decl = [e \in BindElems |-> [trigger |-> "", action |-> ""]]
    /\ assigned = [e \in BindElems |-> NoAction]
    /\ listeners = [e \in BindElems |-> {}]
    /\ onclick = [e \in BindElems |-> FALSE]
    /\ nextHandler = 1
    /\ statusMessage = ""
    /\ bindPasses = 0
    /\ stable = [e \in BindElems |-> TRUE]
    /\ firstHandler = [e \in BindElems |-> 0]
    /\ synced = FALSE

NodeIdle ==
    /\ nodeClasses = {}
    /\ nodeAttrs = [src |-> Absent, alt |-> Absent]
    /\ lastPatch = NoPatch

\* A document without the image
ImageIdle ==
    /\ imgClasses = {}
    /\ imgSrc = ""
    /\ imgLoad = "none"
    /\ imgHandlers = FALSE
    /\ imgQueue = <<>>
    /\ imgResolved = 0

NavFrame == UNCHANGED <<lazyVars, mountVars, bindVars, nodeVars, imgVars>>

Init == ImageIdle /\ InitNav /\ cap = MaxOps /\ LazyIdle /\ MountIdle /\ BindIdle /\ NodeIdle

InitCalls == ImageIdle /\ InitNav /\ cap = MaxCallOps /\ LazyIdle /\ MountIdle /\ BindIdle /\ NodeIdle

InitPop == ImageIdle /\ InitNav /\ cap = MaxPopOps /\ LazyIdle /\ MountIdle /\ BindIdle /\ NodeIdle

InitFair == ImageIdle /\ InitNav /\ cap = MaxFairOps /\ LazyIdle /\ MountIdle /\ BindIdle /\ NodeIdle

\* onReadyStateChange -> run(): ends with this.loading(false)
Run ==
    /\ NavFrame
    /\ ~started
    /\ started' = TRUE
    /\ loading(FALSE)
    /\ returned' = ""
    /\ UNCHANGED <<currentPath, diffCompletedForCurrentPath, lastReloadContentPath,
                   content, history, ops, cap>>

\* A call bounded by MaxOps appends its record to ops
Issue(op) == ops' = Append(ops, op)
\* A settled call keeps its kind, how its promise settled and what it did
Finish(i, result, outcome, emits) ==
    ops' = [ops EXCEPT ![i] = [NoOp EXCEPT !.kind = ops[i].kind, !.result = result,
                                           !.outcome = outcome, !.emits = emits,
                                           !.after = ops[i].after,
                                           !.overtaken = ops[i].overtaken,
                                           !.status = ops[i].status]]

(*--------------------------- diff(url) ----------------------------------*)

DiffIsNoOpNever(url) == FALSE

\* diff, line 719: if(url === this.app.currentPath) return null
DiffIsNoOp(url) == url = currentPath

ShowResponseAlways == TRUE

\* diff, line 745: if(!this.diffCompletedForCurrentPath)
ShowResponse == ~diffCompletedForCurrentPath

IsMostRecentWrongField(url) == lastReloadContentPath = url

\* diff, line 747: if(this.app.currentPath === url)
IsMostRecent(url) == currentPath = url

\* diff(url), lines 719-721: the early return
NavigateSame(url) ==
    /\ NavFrame
    /\ started
    /\ DiffIsNoOp(url)
    /\ returned' = "diff: null"
    /\ UNCHANGED <<started, isLoading, currentPath, diffCompletedForCurrentPath,
                   lastReloadContentPath, content, history, ops, cap>>

\* diff(url), lines 718-740: everything up to the first await
Navigate(url) ==
    /\ NavFrame
    /\ started
    /\ ~DiffIsNoOp(url)
    /\ Len(ops) < cap
    /\ Issue([NoOp EXCEPT !.kind = "diff", !.path = url,
                          !.url = FragmentUrl(url), !.pc = "awaiting"])
    /\ history' = Append(history, url)
    /\ currentPath' = url
    /\ diffCompletedForCurrentPath' = FALSE
    /\ loading(TRUE)
    /\ returned' = ""
    /\ UNCHANGED <<started, lastReloadContentPath, content, cap>>

\* The response of navigation j has been handled, and it was a success
HandledOk(j) ==
    /\ ops[j].kind = "diff"
    /\ \/ ops[j].pc = "patching"
       \/ ops[j].pc = "done" /\ ops[j].outcome \in {"applied", "discarded"}

\* The most recently issued navigation
LastDiff == CHOOSE j \in OpIds : ops[j].kind = "diff" /\ \A k \in OpIds : ops[k].kind = "diff" => k <= j

\* History of navigation i, fixed when its response is handled: the
\* navigations issued after i whose response was handled before it, and
\* whether the most recent navigation is one of them
After(i) == {j \in OpIds : j > i /\ HandledOk(j)}

Overtaken(i) ==
    IF \E j \in OpIds : j > i /\ HandledOk(j)
    THEN IF HandledOk(LastDiff) THEN "by latest" ELSE "by older"
    ELSE "no"

DiffCatchMarksCompleted(i) ==
    /\ Finish(i, "resolved", "failed", 0)
    /\ loading(FALSE)
    /\ diffCompletedForCurrentPath' = TRUE
    /\ UNCHANGED content

\* diff, lines 755-759: await request throws;
\* catch(err) { console.error(err) } finally { this.loading(false) }
DiffCatch(i) ==
    /\ Finish(i, "resolved", "failed", 0)
    /\ loading(FALSE)
    /\ UNCHANGED <<diffCompletedForCurrentPath, content>>

\* diff, lines 745-752: the response is shown; Diff.innerHTML(this.app.content,
\* html) is called and the call waits for the patch promise
DiffShow(i) ==
    /\ diffCompletedForCurrentPath' =
          IF IsMostRecent(ops[i].path) THEN TRUE ELSE diffCompletedForCurrentPath
    /\ content' = [path |-> ops[i].path, by |-> i]
    /\ ops' = [ops EXCEPT ![i] = [@ EXCEPT !.pc = "patching",
                                            !.after = After(i),
                                            !.overtaken = Overtaken(i)]]
    /\ UNCHANGED isLoading

DiffDropEmits(i) ==
    /\ ops' = [ops EXCEPT ![i] = [NoOp EXCEPT !.kind = "diff",
                                               !.result = "resolved",
                                               !.outcome = "discarded",
                                               !.emits = 1,
                                               !.after = After(i),
                                               !.overtaken = Overtaken(i)]]
    /\ loading(FALSE)
    /\ UNCHANGED <<diffCompletedForCurrentPath, content>>

\* diff, lines 745 and 757-759: the guard is false, the response is dropped
\* without a word; finally { this.loading(false) }
DiffDrop(i) ==
    /\ ops' = [ops EXCEPT ![i] = [NoOp EXCEPT !.kind = "diff",
                                               !.result = "resolved",
                                               !.outcome = "discarded",
                                               !.after = After(i),
                                               !.overtaken = Overtaken(i)]]
    /\ loading(FALSE)
    /\ UNCHANGED <<diffCompletedForCurrentPath, content>>

\* diff, lines 742-759: the continuation after both awaits, up to the next
\* await (Diff.innerHTML) or to the end; r is how the request settled
DiffContinue(i, r) ==
    /\ UNCHANGED <<started, currentPath, lastReloadContentPath, history, cap>>
    /\ returned' = ""
    /\ IF r = "failed" THEN DiffCatch(i)
       ELSE IF ShowResponse THEN DiffShow(i)
       ELSE DiffDrop(i)

\* diff, lines 740-742: await delay(150), then await request. The timer and
\* the request (fetch(path).then(response => response.text())) are local to
\* the call and nothing else reads them, so the call resumes in one step, taken
\* when the later of the two has settled; r is how the request settled
DiffSettled(i, r) ==
    /\ NavFrame
    /\ ops[i].kind = "diff" /\ ops[i].pc = "awaiting"
    /\ DiffContinue(i, r)

\* diff, lines 752-758: the patch promise resolves; emit, then finally
DiffPatched(i) ==
    /\ NavFrame
    /\ ops[i].kind = "diff" /\ ops[i].pc = "patching"
    /\ Finish(i, "resolved", "applied", 1)
    /\ loading(FALSE)
    /\ returned' = ""
    /\ UNCHANGED <<started, currentPath, diffCompletedForCurrentPath,
                   lastReloadContentPath, content, history, cap>>

(*------------------- reloadContent(cached), reloadPage() -----------------*)

IsOldRequestNever(path) == FALSE

\* reloadContent, lines 437 and reloadPage, line 458:
\* if(this.app.currentPath !== path) return Promise.reject("old request")
IsOldRequest(path) == currentPath # path

\* reloadContent(cached), lines 420-435: the synchronous part
ReloadContent(cached) ==
    /\ NavFrame
    /\ started
    /\ Len(ops) < cap
    /\ Issue([NoOp EXCEPT !.kind = "reloadContent", !.path = currentPath,
                          !.url = FragmentUrl(currentPath), !.cached = cached,
                          !.headers = ReloadHeaders(cached), !.pc = "fetching"])
    /\ lastReloadContentPath' = currentPath
    /\ returned' = ""
    /\ UNCHANGED <<started, isLoading, currentPath, diffCompletedForCurrentPath,
                   content, history, cap>>

\* reloadPage(), lines 448-456: the synchronous part
ReloadPage ==
    /\ NavFrame
    /\ started
    /\ Len(ops) < cap
    /\ Issue([NoOp EXCEPT !.kind = "reloadPage", !.path = currentPath,
                          !.url = currentPath, !.pc = "fetching"])
    /\ lastReloadContentPath' = currentPath
    /\ returned' = ""
    /\ UNCHANGED <<started, isLoading, currentPath, diffCompletedForCurrentPath,
                   content, history, cap>>

IsReload(i) == ops[i].kind \in {"reloadContent", "reloadPage"}

\* lines 436-442 / 457-463: the fetch settles; the response (its headers) is
\* there and the stale-request check runs; r = "failed" is a network error
ReloadResponse(i, r) ==
    /\ NavFrame
    /\ IsReload(i) /\ ops[i].pc = "fetching"
    /\ IF r = "failed"
       THEN /\ Finish(i, "rejected: network error", "failed", 0)
            /\ returned' = ""
       ELSE IF IsOldRequest(ops[i].path)
       THEN /\ Finish(i, "rejected: old request", "discarded", 0)
            /\ returned' = ""
       ELSE /\ ops' = [ops EXCEPT ![i].pc = "reading"]
            /\ returned' = ""
    /\ UNCHANGED <<started, isLoading, currentPath, diffCompletedForCurrentPath,
                   lastReloadContentPath, content, history, cap>>

\* lines 443-444 / 464-465: response.text() resolves with the body and the
\* markup is handed to Diff.innerHTML / Diff.root
ReloadText(i) ==
    /\ NavFrame
    /\ IsReload(i) /\ ops[i].pc = "reading"
    /\ content' = [path |-> ops[i].path, by |-> i]
    /\ ops' = [ops EXCEPT ![i].pc = "patching"]
    /\ returned' = ""
    /\ UNCHANGED <<started, isLoading, currentPath, diffCompletedForCurrentPath,
                   lastReloadContentPath, history, cap>>

\* lines 445 / 466-467: the patch promise resolves; emit("DOMContentLoaded"),
\* and reloadPage then calls this.loading(false)
ReloadPatched(i) ==
    /\ NavFrame
    /\ IsReload(i) /\ ops[i].pc = "patching"
    /\ Finish(i, "resolved", "applied", 1)
    /\ IF ops[i].kind = "reloadPage" THEN loading(FALSE) ELSE UNCHANGED isLoading
    /\ returned' = ""
    /\ UNCHANGED <<started, currentPath, diffCompletedForCurrentPath,
                   lastReloadContentPath, content, history, cap>>

(*---------------------------- post(url, body) ----------------------------*)

PostIsGuardedNever == FALSE

\* post, line 767: if(this.isLoading) return Promise.resolve(null)
PostIsGuarded == isLoading

\* post(url, body), lines 767-769: the early return
PostWhileLoading(url) ==
    /\ NavFrame
    /\ PostIsGuarded
    /\ returned' = "post: null"
    /\ UNCHANGED <<started, isLoading, currentPath, diffCompletedForCurrentPath,
                   lastReloadContentPath, content, history, ops, cap>>

\* post(url, body), lines 766-781: the synchronous part (the serialized body
\* travels with the request and is read by nothing in the controller)
Post(url) ==
    /\ NavFrame
    /\ ~PostIsGuarded
    /\ Len(ops) < cap
    /\ loading(TRUE)
    /\ Issue([NoOp EXCEPT !.kind = "post", !.url = url, !.method = "POST",
                          !.pc = "fetching"])
    /\ returned' = ""
    /\ UNCHANGED <<started, currentPath, diffCompletedForCurrentPath,
                   lastReloadContentPath, content, history, cap>>

IsOkAlways(status) == TRUE

\* post, line 785: if(response.status === 200)
IsOk(status) == status = 200

\* post, lines 782-792: the response arrives with an HTTP status
PostResponse(i, status) ==
    /\ NavFrame
    /\ ops[i].kind = "post" /\ ops[i].pc = "fetching"
    /\ loading(FALSE)
    /\ IF IsOk(status)
       THEN ops' = [ops EXCEPT ![i] = [NoOp EXCEPT !.kind = "post", !.status = status,
                                                   !.result = "resolved: response",
                                                   !.outcome = "ok"]]
       ELSE ops' = [ops EXCEPT ![i] = [@ EXCEPT !.pc = "readingError", !.status = status]]
    /\ returned' = ""
    /\ UNCHANGED <<started, currentPath, diffCompletedForCurrentPath,
                   lastReloadContentPath, content, history, cap>>

\* post, lines 789-796: response.text() resolves, err is thrown, and the
\* catch handler clears the flag and rethrows
PostErrorText(i) ==
    /\ NavFrame
    /\ ops[i].kind = "post" /\ ops[i].pc = "readingError"
    /\ loading(FALSE)
    /\ Finish(i, "rejected: response text", "failed", 0)
    /\ returned' = ""
    /\ UNCHANGED <<started, currentPath, diffCompletedForCurrentPath,
                   lastReloadContentPath, content, history, cap>>

PostFailedFlagKept(i) ==
    /\ NavFrame
    /\ ops[i].kind = "post" /\ ops[i].pc = "fetching"
    /\ Finish(i, "rejected: network error", "failed", 0)
    /\ returned' = ""
    /\ UNCHANGED <<started, isLoading, currentPath, diffCompletedForCurrentPath,
                   lastReloadContentPath, content, history, cap>>

\* post, lines 793-796: the fetch itself rejects (network failure)
PostFailed(i) ==
    /\ NavFrame
    /\ ops[i].kind = "post" /\ ops[i].pc = "fetching"
    /\ loading(FALSE)
    /\ Finish(i, "rejected: network error", "failed", 0)
    /\ returned' = ""
    /\ UNCHANGED <<started, currentPath, diffCompletedForCurrentPath,
                   lastReloadContentPath, content, history, cap>>

HttpStatus == {200, 500}

Next ==
    \/ Run
    \/ \E url \in Paths : Navigate(url)
    \/ \E i \in OpIds, r \in {"ok", "failed"} : DiffSettled(i, r)
    \/ \E i \in OpIds : DiffPatched(i)
    \/ \E cached \in BOOLEAN : ReloadContent(cached)
    \/ ReloadPage
    \/ \E i \in OpIds, r \in {"ok", "failed"} : ReloadResponse(i, r)
    \/ \E i \in OpIds : ReloadText(i)
    \/ \E i \in OpIds : ReloadPatched(i)
    \/ \E url \in PostUrls : Post(url)
    \/ \E i \in OpIds, status \in HttpStatus : PostResponse(i, status)
    \/ \E i \in OpIds : PostErrorText(i)
    \/ \E i \in OpIds : PostFailed(i)

Spec == Init /\ [][Next]_vars

\* The same controller, with the calls that return at once made visible
NextCalls ==
    \/ Next
    \/ \E url \in Paths : NavigateSame(url)
    \/ \E url \in PostUrls : PostWhileLoading(url)

SpecCalls == InitCalls /\ [][NextCalls]_vars

(*------------------------------ onPopState(e) -----------------------------*)

\* e.state of a popstate event: null on the entry of the initial load, the
\* url given to history.pushState (line 732) on every other entry
NoState == "<null>"

\* onPopState, line 863: if(e.state)
HasState(state) == state # NoState

LeftOriginalAlways == TRUE

\* onPopState, line 867: this.app.currentPath !== this.app.originalPath
LeftOriginal == currentPath # OriginalPath

\* The popstate event a step handled and the call the handler made
PopEvent(state) == "popstate(" \o state \o "): "
LoadCall(url, addToHistory) ==
    "load(" \o url \o ", addToHistory: " \o (IF addToHistory THEN "true" ELSE "false") \o ")"

\* Application.load(url, options): the application navigates to url and
\* pushes a history entry only when options.addToHistory is set
AppLoad(url, addToHistory) ==
    /\ currentPath' = url
    /\ history' = IF addToHistory THEN Append(history, url) ELSE history

\* onPopState(e), lines 862-872
OnPopState(state) ==
    /\ NavFrame
    /\ started
    /\ state = NoState \/ \E k \in 1..Len(history) : history[k] = state
    /\ IF HasState(state)
       THEN /\ AppLoad(state, FALSE)
            /\ returned' = PopEvent(state) \o LoadCall(state, FALSE)
       ELSE IF LeftOriginal
       THEN /\ AppLoad(OriginalPath, FALSE)
            /\ returned' = PopEvent(state) \o LoadCall(OriginalPath, FALSE)
       ELSE /\ UNCHANGED <<currentPath, history>>
            /\ returned' = PopEvent(state) \o "no call"
    /\ UNCHANGED <<started, isLoading, diffCompletedForCurrentPath,
                   lastReloadContentPath, content, ops, cap>>

\* The controller with the back and forward buttons of the browser
NextPop ==
    \/ NextCalls
    \/ \E state \in Paths \cup {NoState} : OnPopState(state)

SpecPop == InitPop /\ [][NextPop]_vars

\* Every timer fires, every fetch settles (with a response or a network error),
\* every body read and every patch promise resolves
FairSpec ==
    /\ InitFair /\ [][Next]_vars
    /\ WF_vars(Run)
    /\ WF_vars(\E i \in OpIds, r \in {"ok", "failed"} : DiffSettled(i, r))
    /\ WF_vars(\E i \in OpIds : DiffPatched(i))
    /\ WF_vars(\E i \in OpIds, r \in {"ok", "failed"} : ReloadResponse(i, r))
    /\ WF_vars(\E i \in OpIds : ReloadText(i))
    /\ WF_vars(\E i \in OpIds : ReloadPatched(i))
    /\ WF_vars(\E i \in OpIds, status \in HttpStatus : PostResponse(i, status))
    /\ WF_vars(\E i \in OpIds : PostErrorText(i))
    /\ WF_vars(\E i \in OpIds : PostFailed(i))

(***************************************************************************)
(* Properties of the navigation controller                                 *)
(***************************************************************************)

\* This step runs the continuation of navigation i on a successful response
DiffHandledNow(i) ==
    /\ ops[i].kind = "diff" /\ ops[i].pc = "awaiting"
    /\ \/ ops'[i].pc = "patching"
       \/ ops'[i].pc = "done" /\ ops'[i].outcome = "discarded"

\* This step hands the response of navigation i to the patcher
DiffAppliedNow(i) == ops[i].kind = "diff" /\ ops[i].pc = "awaiting" /\ ops'[i].pc = "patching"

\* C1 as stated: a navigation response is patched into the live content only
\* if its path equals currentPath at the moment the navigation completes.
C1_PatchedOnlyIfCurrent ==
    [][\A i \in OpIds : DiffAppliedNow(i) => ops[i].path = currentPath]_vars

\* C1, amended: a navigation response is patched into the live content if and
\* only if no response for currentPath has completed since the last effective
\* navigate (diffCompletedForCurrentPath is false when the navigation
\* completes); otherwise it is discarded and the content is left as it is.
C1_PatchedIffNoneCompleted ==
    [][\A i \in OpIds : DiffHandledNow(i) =>
          /\ (ops'[i].pc = "patching") <=> ~diffCompletedForCurrentPath
          /\ ops'[i].pc = "patching" => content' = [path |-> ops[i].path, by |-> i]
          /\ ops'[i].pc = "done" => content' = content]_vars

\* C1 witness: the response of a superseded navigation is being patched in
C1_StaleResponsePatched ==
    \E i \in OpIds : /\ ops[i].kind = "diff" /\ ops[i].pc = "patching"
                     /\ ops[i].path # currentPath /\ content.by = i

\* C2 as stated: when B was issued after A and A's response arrived after
\* B's, once both have completed the content last applied is not A's.
C2_LateResponseNeverLast ==
    \A i, j \in OpIds :
        (ops[i].kind = "diff" /\ ops[i].pc = "done" /\ j \in ops[i].after /\ ops[j].pc = "done")
            => content.by # i

\* C2, amended: when B was issued after A, A's response arrives after B's and
\* B is still the most recently issued navigation at that moment, A's
\* response is discarded and never becomes the content.
C2_LateResponseDiscarded ==
    \A i \in OpIds :
        (ops[i].kind = "diff" /\ ops[i].overtaken = "by latest")
            => /\ ops[i].pc = "done" /\ ops[i].outcome = "discarded"
               /\ content.by # i

\* C2 witness: A was overtaken by the latest navigation B and both completed
C2_BothCompleted ==
    \E i \in OpIds : /\ ops[i].kind = "diff" /\ ops[i].overtaken = "by latest"
                     /\ ops[LastDiff].pc = "done" /\ ops[LastDiff].outcome = "applied"
                     /\ content.by = LastDiff

\* This step is a call of post that passed the guard and issued its request
PostIssuedNow ==
    Len(ops') = Len(ops) + 1 /\ ops'[Len(ops')].kind = "post"

\* C3: post called while isLoading is true returns a promise resolved to null,
\* issues no request and leaves isLoading and the rest of the state unchanged.
C3_PostWhileLoadingIsNoOp ==
    [][(isLoading /\ (PostIssuedNow \/ returned' = "post: null")) =>
          /\ returned' = "post: null"
          /\ UNCHANGED <<started, isLoading, currentPath, diffCompletedForCurrentPath,
                         lastReloadContentPath, content, history, ops>>]_vars

\* C3 witness: post returned null while a navigation keeps the flag set
C3_PostReturnedNull ==
    /\ returned = "post: null" /\ isLoading
    /\ \E i \in OpIds : ops[i].kind = "diff" /\ InFlight(i)

\* No navigation and no post is in flight
NoNavNoPost == \A i \in OpIds : ops[i].kind \in {"diff", "post"} => ~InFlight(i)

\* C4: after startup isLoading is false whenever no navigate and no post is in
\* flight, and a set flag is always cleared eventually.
C4_LoadingNeverStuck ==
    /\ []((started /\ NoNavNoPost) => ~isLoading)
    /\ (isLoading ~> ~isLoading)

\* C4 witness: a navigation and a post have both failed and the flag is clear
C4_ClearedAfterFailures ==
    /\ started /\ NoNavNoPost /\ ~isLoading
    /\ \E i \in OpIds : ops[i].kind = "diff" /\ ops[i].outcome = "failed"
    /\ \E i \in OpIds : ops[i].kind = "post" /\ ops[i].outcome = "failed"

\* C9 as stated: a reload hands its markup to the patcher only if currentPath
\* at that moment still equals the path captured when the reload was issued.
C9_ReloadAppliedOnlyIfCurrent ==
    [][\A i \in OpIds :
          (IsReload(i) /\ ops[i].pc = "reading" /\ ops'[i].pc = "patching")
              => ops[i].path = currentPath]_vars

\* This step is a call of reloadContent
ReloadContentIssuedNow ==
    Len(ops') = Len(ops) + 1 /\ ops'[Len(ops')].kind = "reloadContent"

HeaderNames(headers) == {h[1] : h \in headers}

\* C10: reloadContent(false) sends X-Reload: true and no X-CacheOnly,
\* reloadContent(true) sends X-CacheOnly: true and no X-Reload, and the
\* request goes to /_<currentPath>.
C10_ReloadContentRequest ==
    [][ReloadContentIssuedNow =>
          LET req == ops'[Len(ops')] IN
          /\ ~req.cached => req.headers = {<<"X-Reload", "true">>}
          /\ req.cached => req.headers = {<<"X-CacheOnly", "true">>}
          /\ Cardinality(HeaderNames(req.headers) \cap {"X-Reload", "X-CacheOnly"}) = 1
          /\ req.url = "/_" \o currentPath
          /\ req.method = "GET"]_vars

\* C10 witness: a cached and an uncached reload request are both in flight
C10_BothKindsInFlight ==
    \E i, j \in OpIds :
        /\ ops[i].kind = "reloadContent" /\ ops[i].pc = "fetching" /\ ops[i].cached
        /\ ops[j].kind = "reloadContent" /\ ops[j].pc = "fetching" /\ ~ops[j].cached
        /\ currentPath # OriginalPath

\* This step is a call of diff that went past the early return
DiffIssuedNow ==
    Len(ops') = Len(ops) + 1 /\ ops'[Len(ops')].kind = "diff"

\* C11: navigate(path) with path equal to currentPath is a no-op: it returns
\* null, issues no fetch, pushes no history entry and leaves currentPath,
\* isLoading, diffCompletedForCurrentPath and the content unchanged.
C11_NavigateSameIsNoOp ==
    [][((DiffIssuedNow /\ ops'[Len(ops')].path = currentPath) \/ returned' = "diff: null") =>
          /\ returned' = "diff: null"
          /\ UNCHANGED <<started, isLoading, currentPath, diffCompletedForCurrentPath,
                         lastReloadContentPath, content, history, ops>>]_vars

\* C11 witness: navigate to the current path returned null after an earlier
\* navigation had moved the controller there and while it is still in flight
C11_SamePathReturnedNull ==
    /\ returned = "diff: null" /\ currentPath # OriginalPath
    /\ Len(history) = 1 /\ isLoading
    /\ \E i \in OpIds : ops[i].kind = "diff" /\ InFlight(i) /\ ops[i].path = currentPath

\* This step settles the promise returned by post call i
PostSettledNow(i) == ops[i].kind = "post" /\ ops[i].pc # "done" /\ ops'[i].pc = "done"

\* C12: a post that passed the guard resolves to the response when the status
\* is 200, rejects with the body text for any other status and rejects with
\* the failure when the fetch fails; isLoading is false when it settles.
C12_PostOutcomes ==
    [][\A i \in OpIds : PostSettledNow(i) =>
          /\ ~isLoading'
          /\ ops'[i].status = 200 => ops'[i].result = "resolved: response"
          /\ ops'[i].status \notin {0, 200} => ops'[i].result = "rejected: response text"
          /\ ops'[i].status = 0 => ops'[i].result = "rejected: network error"
          /\ ops'[i].result \in {"resolved: response", "rejected: response text",
                                 "rejected: network error"}]_vars

\* C12 witness: a post answered with status 500 has rejected with the body
\* text and cleared the flag while a navigation was still in flight
C12_RejectedWithBodyText ==
    \E i, j \in OpIds :
        /\ ops[i].kind = "post" /\ ops[i].pc = "done" /\ ops[i].status = 500
        /\ ops[i].result = "rejected: response text"
        /\ ops[j].kind = "diff" /\ InFlight(j) /\ ~isLoading

\* The post calls whose request is out and whose response has not arrived
PostsInFlight == {i \in OpIds : ops[i].kind = "post" /\ ops[i].pc = "fetching"}

\* C13 as stated: in every reachable state at most one post request is in
\* flight, for any interleaving of post, navigate and reload calls.
C13_AtMostOnePostInFlight == Cardinality(PostsInFlight) <= 1

\* C14 as stated: in every reachable state in which a post request is in
\* flight isLoading is true, whatever navigations are issued or complete.
C14_LoadingWhilePostInFlight == PostsInFlight # {} => isLoading

\* This step handles the failed fetch of navigation i
DiffFailedNow(i) ==
    ops[i].kind = "diff" /\ ops[i].pc = "awaiting" /\ ops'[i].outcome = "failed"

\* C15: when the fetch of a navigation fails, the navigation applies no patch,
\* emits no content-ready signal, issues no retry, does not set
\* diffCompletedForCurrentPath and clears isLoading; the content stays as it was.
C15_FailedNavigation ==
    [][\A i \in OpIds : DiffFailedNow(i) =>
          /\ content' = content
          /\ diffCompletedForCurrentPath' = diffCompletedForCurrentPath
          /\ ~isLoading'
          /\ Len(ops') = Len(ops) /\ \A j \in OpIds \ {i} : ops'[j] = ops[j]
          /\ ops'[i].pc = "done" /\ ops'[i].emits = 0
          /\ history' = history /\ currentPath' = currentPath]_vars

\* C15 witness: the only navigation has failed; the content is still the
\* original page although currentPath has moved, and the flag is clear
C15_FailedAndIdle ==
    /\ \E i \in OpIds : ops[i].kind = "diff" /\ ops[i].outcome = "failed"
    /\ \A i \in OpIds : ~InFlight(i)
    /\ content.by = 0 /\ currentPath # OriginalPath
    /\ ~diffCompletedForCurrentPath /\ ~isLoading

\* C16: the content-ready signal is emitted only after a patch: a navigate or
\* reload emits it at most once, in the step in which its own patch promise
\* resolves, and one that was discarded or whose fetch failed emits none.
C16_EmitOnlyAfterPatch ==
    /\ [](\A i \in OpIds :
             /\ ops[i].emits \in {0, 1}
             /\ ops[i].emits = 1 => (ops[i].pc = "done" /\ ops[i].outcome = "applied")
             /\ ops[i].outcome \in {"discarded", "failed"} => ops[i].emits = 0)
    /\ [][\A i \in OpIds : ops'[i].emits # ops[i].emits =>
             (ops[i].pc = "patching" /\ ops[i].emits = 0 /\ ops'[i].emits = 1)]_vars

\* C16 witness: one navigation was applied and emitted, an older one was
\* discarded and a reload failed, both without emitting
C16_AppliedDiscardedFailed ==
    \E i, j, k \in OpIds :
        /\ ops[i].kind = "diff" /\ ops[i].outcome = "applied" /\ ops[i].emits = 1
        /\ ops[j].kind = "diff" /\ ops[j].outcome = "discarded" /\ ops[j].emits = 0
        /\ IsReload(k) /\ ops[k].outcome = "failed" /\ ops[k].emits = 0

\* C23 as stated: while the navigation for the current path is in flight
\* isLoading is true, even when an older navigation or a post completes.
C23_LoadingWhileCurrentNavInFlight ==
    \A i \in OpIds :
        (/\ ops[i].kind = "diff" /\ ops[i].pc = "awaiting"
         /\ i = LastDiff /\ ops[i].path = currentPath) => isLoading

\* C24 as stated: whenever diffCompletedForCurrentPath is true, the markup
\* last handed to the patcher for the content is a response for currentPath.
C24_CompletedMeansCurrentContent ==
    diffCompletedForCurrentPath => content.path = currentPath

\* This step is a step of reload call i: its issue or one of its continuations
ReloadStepNow(i) ==
    \/ i = Len(ops) + 1 /\ Len(ops') = i /\ ops'[i].kind \in {"reloadContent", "reloadPage"}
    \/ i \in OpIds /\ IsReload(i) /\ ops'[i] # ops[i]

\* C25: no step of reloadContent or reloadPage sets isLoading to true; a
\* reload whose response finds another currentPath is rejected as an old
\* request and leaves isLoading and the content unchanged; the only reload
\* step that changes isLoading is the end of reloadPage after its patch.
C25_ReloadAndLoading ==
    [][\A i \in 1..(Len(ops) + 1) : ReloadStepNow(i) =>
          /\ isLoading' => isLoading
          /\ (i \in OpIds /\ ops[i].pc = "fetching" /\ ops'[i].outcome # "failed") =>
                /\ (ops'[i].result = "rejected: old request") <=> (ops[i].path # currentPath)
                /\ ops'[i].result = "rejected: old request" =>
                      (UNCHANGED <<isLoading, content>> /\ ops'[i].pc = "done")
          /\ isLoading' # isLoading =>
                (/\ i \in OpIds /\ ops[i].kind = "reloadPage" /\ ops[i].pc = "patching"
                 /\ ops'[i].outcome = "applied")]_vars

\* C25 witness: a page reload was rejected as an old request while the
\* navigation that overtook it is in flight; the flag is still set
C25_StaleReloadKeepsFlag ==
    \E i, j \in OpIds :
        /\ ops[i].kind = "reloadPage" /\ ops[i].result = "rejected: old request"
        /\ ops[j].kind = "diff" /\ ops[j].pc = "awaiting"
        /\ isLoading /\ content.by = 0

\* The calls onPopState can make for an event with the given state
PopCalls == {LoadCall(url, b) : url \in Paths, b \in BOOLEAN} \cup {"no call"}

\* This step handled a popstate event with the given state
PopNow(state) == returned' \in {PopEvent(state) \o c : c \in PopCalls}

\* C21 as stated: on a pop event with history state the controller loads that
\* path with addToHistory false, otherwise it loads the original path with
\* addToHistory false; the handler pushes no history entry.
C21_PopLoadsStateOrOriginal ==
    [][\A state \in Paths \cup {NoState} : PopNow(state) =>
          /\ state # NoState => returned' = PopEvent(state) \o LoadCall(state, FALSE)
          /\ state = NoState => returned' = PopEvent(state) \o LoadCall(OriginalPath, FALSE)
          /\ history' = history]_vars

\* C21, amended: with history state the controller loads that path with
\* addToHistory false; without it, it loads the original path with
\* addToHistory false when currentPath differs from the original path and
\* makes no call and changes nothing when currentPath is the original path;
\* the handler pushes no history entry.
C21_PopLoadsUnlessAtOriginal ==
    [][\A state \in Paths \cup {NoState} : PopNow(state) =>
          /\ state # NoState =>
                (returned' = PopEvent(state) \o LoadCall(state, FALSE) /\ currentPath' = state)
          /\ (state = NoState /\ currentPath # OriginalPath) =>
                /\ returned' = PopEvent(state) \o LoadCall(OriginalPath, FALSE)
                /\ currentPath' = OriginalPath
          /\ (state = NoState /\ currentPath = OriginalPath) =>
                (returned' = PopEvent(state) \o "no call" /\ currentPath' = currentPath)
          /\ history' = history
          /\ UNCHANGED <<isLoading, diffCompletedForCurrentPath, content, ops>>]_vars

\* C21 witness: after a navigation the user went back to the entry of the
\* initial load, and a second pop without state then made no call
C21_BackAtOriginalNoCall ==
    /\ returned = PopEvent(NoState) \o "no call"
    /\ currentPath = OriginalPath /\ history = <<"/anime/1">>

(***************************************************************************)
(* Visibility lazy-loader                                                  *)
(***************************************************************************)

LazyFrame == UNCHANGED <<navVars, mountVars, bindVars, nodeVars, imgVars>>

\* A document with lazy elements, before the first content-ready signal; the
\* constructor has chosen the observer (lines 53-76)
InitLazy ==
    /\ ImageIdle
    /\ InitNav /\ cap = 0
    /\ ioSupported \in BOOLEAN
    /\ inDom \in SUBSET LazyElems
    /\ observed = {}
    /\ hasCallback = {}
    /\ invoked = [e \in LazyElems |-> 0]
    /\ observes = [e \in LazyElems |-> 0]
    /\ survived = [e \in LazyElems |-> FALSE]
    /\ MountIdle /\ BindIdle /\ NodeIdle

\* entry.target["became visible"]() / elem["became visible"](): the calls
\* made to the callbacks of the elements in S
BecameVisible(S) == [e \in LazyElems |-> IF e \in S THEN invoked[e] + 1 ELSE invoked[e]]

StillObserved(obs, S) == obs

\* constructor, line 61: this.visibilityObserver.unobserve(entry.target)
Unobserve(obs, S) == obs \ S

\* onContentLoaded, lines 147-153, with lazyLoad (534-550), lazyLoadImage
\* (556-618) and lazyLoadIFrame (620-632): disconnect, then every lazy element
\* of the document gets a callback and is observed; the fallback observer
\* (lines 69-75) calls the callback from observe
ContentLoaded ==
    /\ \A e \in inDom : observes[e] < MaxObserve
    /\ hasCallback' = hasCallback \cup inDom
    /\ observes' = [e \in LazyElems |-> IF e \in inDom THEN observes[e] + 1 ELSE observes[e]]
    /\ IF ioSupported
       THEN /\ observed' = inDom
            /\ UNCHANGED invoked
       ELSE /\ observed' = {}
            /\ invoked' = BecameVisible(inDom)
    /\ UNCHANGED <<ioSupported, inDom, survived>>
    /\ LazyFrame

\* constructor, lines 57-64: the observer reports entries; S are the observed
\* elements of the document reported as intersecting
Intersection(S) ==
    /\ ioSupported
    /\ S # {} /\ S \subseteq (observed \cap inDom)
    /\ \A e \in S : invoked[e] <= MaxObserve
    /\ invoked' = BecameVisible(S)
    /\ observed' = Unobserve(observed, S)
    /\ UNCHANGED <<ioSupported, inDom, hasCallback, observes, survived>>
    /\ LazyFrame

\* A patch of the content: the elements of keep stay in place, the others are
\* removed, and the elements of fresh are new ones (their life starts here)
LazyPatch(keep, fresh) ==
    /\ keep \subseteq inDom /\ fresh \subseteq (LazyElems \ keep)
    /\ inDom' = keep \cup fresh
    /\ observed' = observed \cap keep
    /\ hasCallback' = hasCallback \cap keep
    /\ invoked' = [e \in LazyElems |-> IF e \in keep THEN invoked[e] ELSE 0]
    /\ observes' = [e \in LazyElems |-> IF e \in keep THEN observes[e] ELSE 0]
    /\ survived' = [e \in LazyElems |-> e \in keep]
    /\ UNCHANGED ioSupported
    /\ LazyFrame

NextLazy ==
    \/ ContentLoaded
    \/ \E S \in SUBSET LazyElems : Intersection(S)
    \/ \E keep, fresh \in SUBSET LazyElems : LazyPatch(keep, fresh)

SpecLazy == InitLazy /\ [][NextLazy]_vars

\* C5 as stated: the "became visible" callback of an element is invoked at
\* most once over the element's lifetime.
C5_InvokedAtMostOnce == \A e \in LazyElems : invoked[e] <= 1

\* C5, amended: the callback of an element is invoked at most once per observe
\* call made on the element, and in the eager fallback exactly once per
\* observe call; an element is never called before it was given a callback.
C5_InvokedAtMostOncePerObserve ==
    \A e \in LazyElems :
        /\ invoked[e] <= observes[e]
        /\ ~ioSupported => invoked[e] = observes[e]
        /\ invoked[e] > 0 => e \in hasCallback

\* C5 witness: an element that survived a patch was observed again and its
\* callback ran a second time, with intersection support
C5_ResolvedAgainAfterPatch ==
    \E e \in LazyElems : ioSupported /\ survived[e] /\ invoked[e] = 2 /\ observes[e] = 2

(***************************************************************************)
(* Staggered mount scheduler: modifyDelayed                                *)
(***************************************************************************)

MountFrame == UNCHANGED <<navVars, lazyVars, bindVars, nodeVars, imgVars>>

\* modifyDelayed, lines 653-654
maxDelay == 1000
delay == 18

InitMount ==
    /\ ImageIdle
    /\ InitNav /\ cap = 0 /\ LazyIdle /\ BindIdle /\ NodeIdle
    /\ MountAtRest /\ mCap = MaxElems

\* modifyDelayed, line 658: let maxTime = start + maxDelay
maxTime == start + maxDelay

ClampMissing(time) == time

\* modifyDelayed, lines 682-684: if(time > maxTime) time = maxTime
Clamp(time) == IF time > maxTime THEN maxTime ELSE time

\* modifyDelayed, lines 673-680: the time of the next element of a type,
\* before it is clamped; it is what the map keeps
NextTime(type) ==
    IF mountableTypes[type] # NotSet THEN mountableTypes[type] + delay ELSE start

\* modifyDelayed, lines 652-661: the call, at time now
ModifyDelayed(now) ==
    /\ mPhase # "loop"
    /\ mPhase' = "loop"
    /\ start' = now
    /\ mountableTypes' = [t \in MountTypes |-> NotSet]
    /\ mountableTypeMutations' = [t \in MountTypes |-> <<>>]
    /\ mSeen' = 0
    /\ clock' = now
    /\ mutationIndex' = [t \in MountTypes |-> 0]
    /\ framePending' = [t \in MountTypes |-> FALSE]
    /\ revealed' = [t \in MountTypes |-> <<>>]
    /\ UNCHANGED mCap
    /\ MountFrame

\* modifyDelayed, lines 663-690: one iteration of the loop over the elements;
\* mounted is element.classList.contains("mounted") and type is
\* element.dataset.mountableType || "general"
ModifyDelayedElement(type, mounted) ==
    /\ mPhase = "loop"
    /\ mSeen < mCap
    /\ mSeen' = mSeen + 1
    /\ IF mounted
       THEN UNCHANGED <<mountableTypes, mountableTypeMutations>>
       ELSE /\ mountableTypes' = [mountableTypes EXCEPT ![type] = NextTime(type)]
            /\ mountableTypeMutations' =
                  [mountableTypeMutations EXCEPT ![type] = Append(@, Clamp(NextTime(type)))]
    /\ UNCHANGED <<mPhase, start, mCap, clock, mutationIndex, framePending, revealed>>
    /\ MountFrame

\* modifyDelayed, lines 692-715: the input is exhausted; every type with a
\* queue starts at index 0 and requests its first animation frame
ModifyDelayedScheduled ==
    /\ mPhase = "loop"
    /\ mPhase' = "scheduled"
    /\ mutationIndex' = [t \in MountTypes |-> 0]
    /\ framePending' = [t \in MountTypes |-> Len(mountableTypeMutations[t]) > 0]
    /\ UNCHANGED <<start, mountableTypes, mountableTypeMutations, mSeen, mCap,
                   clock, revealed>>
    /\ MountFrame

NotYetDueNever(time, now) == FALSE

\* updateBatch, line 702: if(mutation.time > now) break
NotYetDue(time, now) == time > now

RECURSIVE Batch(_, _, _, _)
\* updateBatch, lines 699-707: the for loop over the mutations from index on,
\* at time now; log collects the calls of func
Batch(mutations, index, now, log) ==
    IF index >= Len(mutations) THEN [index |-> index, log |-> log]
    ELSE IF NotYetDue(mutations[index + 1], now) THEN [index |-> index, log |-> log]
    ELSE Batch(mutations, index + 1, now, Append(log, <<index + 1, now>>))

\* updateBatch, lines 696-712: the animation frame of a type fires
UpdateBatch(type) ==
    /\ mPhase = "scheduled"
    /\ framePending[type]
    /\ LET mutations == mountableTypeMutations[type]
           done == Batch(mutations, mutationIndex[type], clock, revealed[type])
       IN  /\ mutationIndex' = [mutationIndex EXCEPT ![type] = done.index]
           /\ revealed' = [revealed EXCEPT ![type] = done.log]
           /\ framePending' = [framePending EXCEPT ![type] = done.index < Len(mutations)]
    /\ UNCHANGED <<mPhase, start, mountableTypes, mountableTypeMutations, mSeen, mCap, clock>>
    /\ MountFrame

\* Time since the call; it is followed until no loop is waiting for a frame
Tick(d) ==
    /\ mPhase = "scheduled"
    /\ \E t \in MountTypes : framePending[t]
    /\ \E t \in MountTypes : \E k \in 1..Len(mountableTypeMutations[t]) :
           mountableTypeMutations[t][k] > clock
    /\ clock' = clock + d
    /\ UNCHANGED <<mPhase, start, mountableTypes, mountableTypeMutations, mSeen, mCap,
                   mutationIndex, framePending, revealed>>
    /\ MountFrame

NextMount ==
    \/ \E now \in StartTimes : ModifyDelayed(now)
    \/ \E type \in MountTypes, mounted \in BOOLEAN : ModifyDelayedElement(type, mounted)
    \/ ModifyDelayedScheduled

SpecMount == InitMount /\ [][NextMount]_vars

InitFrames ==
    /\ ImageIdle
    /\ InitNav /\ cap = 0 /\ LazyIdle /\ BindIdle /\ NodeIdle
    /\ MountAtRest /\ mCap = MaxFrameElems

\* One call of modifyDelayed followed through its animation frames
NextFrames ==
    \/ \E now \in StartTimes : mPhase = "idle" /\ ModifyDelayed(now)
    \/ \E type \in MountTypes, mounted \in BOOLEAN : ModifyDelayedElement(type, mounted)
    \/ ModifyDelayedScheduled
    \/ \E type \in MountTypes : UpdateBatch(type)
    \/ \E d \in TickSteps : Tick(d)

\* The synchronous loop of the call runs to its end, requested animation
\* frames fire and time advances
SpecFrames ==
    /\ InitFrames /\ [][NextFrames]_vars
    /\ WF_vars(ModifyDelayedScheduled)
    /\ \A type \in MountTypes : WF_vars(UpdateBatch(type))
    /\ WF_vars(\E d \in TickSteps : Tick(d))

Min(a, b) == IF a <= b THEN a ELSE b

\* C6: in one mount call the k-th (k from 0) not yet mounted element of a
\* category is due at min(start + 18*k, start + 1000): the times are
\* non-decreasing, never exceed start + 1000 and the first one is start.
C6_RevealTimes ==
    \A type \in MountTypes :
        LET q == mountableTypeMutations[type] IN
        /\ \A k \in 0..(Len(q) - 1) : q[k + 1] = Min(start + 18 * k, start + 1000)
        /\ \A k \in 1..(Len(q) - 1) : q[k] <= q[k + 1]
        /\ \A k \in 1..Len(q) : q[k] <= start + 1000
        /\ Len(q) > 0 => q[1] = start

\* C6 witness: a call with two categories and an already mounted element, in
\* which the 57th element of a category hits the cap of start + 1000
C6_CapReached ==
    /\ mPhase = "scheduled"
    /\ start = 7
    /\ Len(mountableTypeMutations["general"]) = 57
    /\ mountableTypeMutations["general"][56] = 997
    /\ mountableTypeMutations["general"][57] = 1007
    /\ Len(mountableTypeMutations["card"]) = 1
    /\ mSeen = 59

\* Every loop of the call has gone through its queue and waits for no frame
AllRevealed ==
    \A type \in MountTypes :
        /\ ~framePending[type]
        /\ Len(revealed[type]) = Len(mountableTypeMutations[type])

\* C20: each category's frame loop reveals its queued elements in queue
\* order, each exactly once and none in a frame earlier than its due time,
\* and has a frame requested exactly while its queue is not exhausted; when
\* frames keep firing and time advances, every queued element is revealed and
\* every loop stops.
C20_FrameLoop ==
    /\ [](\A type \in MountTypes :
             LET q == mountableTypeMutations[type]
                 log == revealed[type]
             IN  /\ Len(log) = mutationIndex[type] /\ Len(log) <= Len(q)
                 /\ \A k \in 1..Len(log) : log[k][1] = k /\ log[k][2] >= q[k]
                 /\ \A k \in 1..(Len(log) - 1) : log[k][2] <= log[k + 1][2]
                 /\ mPhase = "scheduled" => (framePending[type] <=> Len(log) < Len(q))
                 /\ mPhase # "scheduled" => (~framePending[type] /\ log = <<>>))
    /\ ((mPhase = "loop") ~> (mPhase = "scheduled" /\ AllRevealed))
    /\ [][(mPhase = "scheduled" /\ AllRevealed) => UNCHANGED <<revealed, framePending>>]_vars

\* C20 witness: of three queued elements of one category the first was
\* revealed in the first frame and the other two together in a late frame,
\* while the element of the other category was revealed after its due time
C20_TwoFramesTwoTypes ==
    /\ mPhase = "scheduled" /\ AllRevealed /\ start = 7
    /\ mountableTypeMutations["general"] = <<7, 25, 43>>
    /\ revealed["general"] = <<(<<1, 7>>), (<<2, 43>>), (<<3, 43>>)>>
    /\ revealed["card"] = <<(<<1, 13>>)>>

(***************************************************************************)
(* Action dispatcher: assignActions                                        *)
(***************************************************************************)

BindFrame == UNCHANGED <<navVars, lazyVars, mountVars, nodeVars, imgVars>>

\* The document as the server rendered it: every element declares some
\* trigger and action, nothing is bound yet
InitBind ==
    /\ ImageIdle
    /\ InitNav /\ cap = 0 /\ LazyIdle /\ MountIdle /\ NodeIdle
    /\ decl \in [BindElems -> [trigger : Triggers, action : ActionNames]]
    /\ assigned = [e \in BindElems |-> NoAction]
    /\ listeners = [e \in BindElems |-> {}]
    /\ onclick = [e \in BindElems |-> tagName[e] = "A"]
    /\ nextHandler = 1
    /\ statusMessage = ""
    /\ bindPasses = 0
    /\ stable = [e \in BindElems |-> TRUE]
    /\ firstHandler = [e \in BindElems |-> 0]
    /\ synced = FALSE

\* assignActions, line 488: if(!actionTrigger || !actionName) continue
InvalidDefinition(d) == d.trigger = "" \/ d.action = ""

SamePairNever(old, d) == FALSE

\* assignActions, line 495
SamePair(old, d) == old.trigger = d.trigger /\ old.action = d.action

IsDefinedAlways(actionName) == TRUE

\* assignActions, line 508: actionName in actions
IsDefined(actionName) == actionName \in KnownActions

RemoveListenerMissing(ls, old) == ls

\* element.removeEventListener(oldAction.trigger, oldAction.handler)
RemoveListener(ls, old) ==
    {l \in ls : ~(l.trigger = old.trigger /\ l.handler = old.handler)}

\* assignActions, lines 484-530: the body of the loop for element e, on the
\* dispatcher state st
BindElement(st, e) ==
    LET d == decl[e]
        oldAction == st.assigned[e]
        afterRemove == IF oldAction # NoAction
                       THEN RemoveListener(st.listeners[e], oldAction)
                       ELSE st.listeners[e]
        afterOnclick == IF d.trigger = "click" /\ tagName[e] = "A"
                        THEN FALSE ELSE st.onclick[e]
        actionHandler == st.nextHandler
    IN  IF InvalidDefinition(d) THEN st
        ELSE IF oldAction # NoAction /\ SamePair(oldAction, d) THEN st
        ELSE IF ~IsDefined(d.action)
        THEN [st EXCEPT !.listeners[e] = afterRemove,
                        !.onclick[e] = afterOnclick,
                        !.statusMessage = "Action '" \o d.action \o "' has not been defined"]
        ELSE [st EXCEPT !.listeners[e] = afterRemove \cup
                                {[trigger |-> d.trigger, handler |-> actionHandler,
                                  action |-> d.action]},
                        !.onclick[e] = afterOnclick,
                        !.assigned[e] = [trigger |-> d.trigger, action |-> d.action,
                                         handler |-> actionHandler],
                        !.nextHandler = actionHandler + 1]

RECURSIVE BindFrom(_, _)
\* assignActions, line 483: for(let element of findAll("action")), from the
\* k-th element on
BindFrom(st, k) ==
    IF k > Len(ElemOrder) THEN st ELSE BindFrom(BindElement(st, ElemOrder[k]), k + 1)

\* assignActions, lines 482-532
AssignActions ==
    LET st == [assigned |-> assigned, listeners |-> listeners, onclick |-> onclick,
               nextHandler |-> nextHandler, statusMessage |-> statusMessage]
        new == BindFrom(st, 1)
    IN  /\ new.nextHandler <= MaxHandlers + 1
        /\ assigned' = new.assigned
        /\ listeners' = new.listeners
        /\ onclick' = new.onclick
        /\ nextHandler' = new.nextHandler
        /\ statusMessage' = new.statusMessage
        /\ bindPasses' = IF bindPasses < 2 THEN bindPasses + 1 ELSE 2
        /\ firstHandler' = [e \in BindElems |->
                              IF firstHandler[e] = 0 THEN new.assigned[e].handler
                              ELSE firstHandler[e]]
        /\ synced' = TRUE
        /\ UNCHANGED <<decl, stable>>
        /\ BindFrame

\* A patch rewrites data-trigger / data-action of element e
ChangeDeclaration(e, d) ==
    /\ d # decl[e]
    /\ decl' = [decl EXCEPT ![e] = d]
    /\ stable' = [stable EXCEPT ![e] = FALSE]
    /\ synced' = FALSE
    /\ UNCHANGED <<assigned, listeners, onclick, nextHandler, statusMessage,
                   bindPasses, firstHandler>>
    /\ BindFrame

NextBind ==
    \/ AssignActions
    \/ \E e \in BindElems, d \in [trigger : Triggers, action : ActionNames] :
          ChangeDeclaration(e, d)

SpecBind == InitBind /\ [][NextBind]_vars

\* C7: on an element whose declared (trigger, action) pair is known and has
\* not changed, any number of bind passes leaves exactly one listener: the
\* handler registered by the first pass, for the declared trigger.
C7_BindIdempotent ==
    \A e \in BindElems :
        (bindPasses >= 1 /\ stable[e] /\ ~InvalidDefinition(decl[e])
                         /\ decl[e].action \in {"search", "darkTheme"})
            => /\ firstHandler[e] >= 1
               /\ listeners[e] = {[trigger |-> decl[e].trigger,
                                   handler |-> firstHandler[e],
                                   action |-> decl[e].action]}

\* C7 witness: a second pass has run over two unchanged, known declarations
C7_SecondPassDone ==
    /\ bindPasses = 2
    /\ \A e \in BindElems : /\ stable[e] /\ decl[e].action = "search"
                            /\ decl[e].trigger = "click"
                            /\ Cardinality(listeners[e]) = 1

\* The listener a bind pass registers on e for the declaration d
ListenerFor(d, handler) == [trigger |-> d.trigger, handler |-> handler, action |-> d.action]

\* The declaration names a trigger and one of the actions of the action table
DeclaresKnown(d) == d.trigger # "" /\ d.action \in {"search", "darkTheme"}

\* The declaration names a trigger and an action the action table does not have
DeclaresUnknown(d) == d.trigger # "" /\ d.action = "bogus"

\* This step is a bind pass
BindPassNow == synced' /\ decl' = decl

\* C17: an element never has more than one listener registered by the
\* dispatcher; when its declared pair has changed to another known pair, the
\* next bind pass leaves exactly the new listener, with a new handler.
C17_AtMostOneListener ==
    /\ [](\A e \in BindElems : Cardinality(listeners[e]) <= 1)
    /\ [][BindPassNow =>
             \A e \in BindElems :
                 (/\ DeclaresKnown(decl[e]) /\ assigned[e] # NoAction
                  /\ ~(assigned[e].trigger = decl[e].trigger /\ assigned[e].action = decl[e].action))
                     => /\ assigned'[e].handler # assigned[e].handler
                        /\ listeners'[e] = {ListenerFor(decl[e], assigned'[e].handler)}]_vars

\* C17 witness: an element bound by the first pass was declared anew and
\* bound again; its only listener is the second handler
C17_ListenerReplaced ==
    \E e \in BindElems :
        /\ synced /\ ~stable[e] /\ DeclaresKnown(decl[e])
        /\ firstHandler[e] >= 1 /\ assigned[e].handler > firstHandler[e]
        /\ listeners[e] = {ListenerFor(decl[e], assigned[e].handler)}

\* C18: a bind pass gives an element that declares an unknown action no
\* listener and shows the warning, and still binds every other element whose
\* declared known pair is not the one recorded on it.
C18_UnknownActionSkipped ==
    [][BindPassNow =>
          \A e \in BindElems : DeclaresUnknown(decl[e]) =>
              /\ listeners'[e] = {}
              /\ statusMessage' = "Action 'bogus' has not been defined"
              /\ \A o \in BindElems \ {e} :
                    (/\ DeclaresKnown(decl[o])
                     /\ ~(assigned[o].trigger = decl[o].trigger /\ assigned[o].action = decl[o].action))
                        => /\ listeners'[o] = {ListenerFor(decl[o], assigned'[o].handler)}
                           /\ assigned'[o].handler \notin {0, assigned[o].handler}]_vars

\* C18 witness: in the first pass the link, which comes first, declared an
\* unknown action and the button after it was bound
C18_BoundAfterUnknown ==
    /\ bindPasses = 1 /\ synced
    /\ decl["link"] = [trigger |-> "click", action |-> "bogus"]
    /\ listeners["link"] = {} /\ ~onclick["link"]
    /\ statusMessage = "Action 'bogus' has not been defined"
    /\ DeclaresKnown(decl["button"])
    /\ listeners["button"] = {ListenerFor(decl["button"], 1)}

\* C19 as stated: after declaration changes each followed by a bind pass,
\* every element that declares a known action has exactly one listener, for
\* the pair it declares, and the record on it describes that listener.
C19_KnownActionBound ==
    synced => \A e \in BindElems : DeclaresKnown(decl[e]) =>
                  /\ assigned[e].trigger = decl[e].trigger
                  /\ assigned[e].action = decl[e].action
                  /\ listeners[e] = {ListenerFor(decl[e], assigned[e].handler)}

(***************************************************************************)
(* Tree patcher: one live node under Diff.innerHTML / Diff.root            *)
(***************************************************************************)

NodeFrame == UNCHANGED <<navVars, lazyVars, mountVars, bindVars, imgVars>>

persistentClassesWithoutMounted == {"element-found", "active"}

\* constructor, lines 45-48: Diff.persistentClasses.add(...)
persistentClasses == {"mounted", "element-found", "active"}

\* constructor, lines 50-51: Diff.persistentAttributes.add("src")
persistentAttributes == {"src"}

\* A live node of the document, as rendered by the server
InitNode ==
    /\ ImageIdle
    /\ InitNav /\ cap = 0 /\ LazyIdle /\ MountIdle /\ BindIdle
    /\ nodeClasses \in SUBSET ClassNames
    /\ nodeAttrs \in AttrValues
    /\ lastPatch = NoPatch

\* The patcher reconciles a matched live node with its target: classes and
\* attributes become the target's, except that persistent classes of the live
\* node stay and a persistent attribute is not set to empty or removed
PatchedClasses(live, target) == target \cup (live \cap persistentClasses)

PatchedAttrs(live, target) ==
    [a \in AttrNames |->
        IF a \in persistentAttributes /\ target[a] \in {Absent, ""} THEN live[a] ELSE target[a]]

PatchNode(target) ==
    /\ nodeClasses' = PatchedClasses(nodeClasses, target.classes)
    /\ nodeAttrs' = PatchedAttrs(nodeAttrs, target.attrs)
    /\ lastPatch' = target
    /\ NodeFrame

\* The mutations the controller queues on a node: classList.add("mounted")
\* (line 639), classList.remove("mounted") (line 648),
\* classList.remove("element-found") (line 592), classList.add("element-found")
\* (lines 602, 613, 628)
QueuedClassMutation(add, class) ==
    /\ class \in {"mounted", "element-found"}
    /\ nodeClasses' = IF add THEN nodeClasses \cup {class} ELSE nodeClasses \ {class}
    /\ lastPatch' = NoPatch
    /\ UNCHANGED nodeAttrs
    /\ NodeFrame

\* element.src = finalSrc (lines 593, 625)
SetSrc(finalSrc) ==
    /\ finalSrc \notin {Absent, ""}
    /\ nodeAttrs' = [nodeAttrs EXCEPT !.src = finalSrc]
    /\ lastPatch' = NoPatch
    /\ UNCHANGED nodeClasses
    /\ NodeFrame

NextNode ==
    \/ \E target \in [classes : SUBSET ClassNames, attrs : AttrValues] : PatchNode(target)
    \/ \E add \in BOOLEAN, class \in ClassNames : QueuedClassMutation(add, class)
    \/ \E finalSrc \in {"/images/a.png", "/images/b.png"} : SetSrc(finalSrc)

SpecNode == InitNode /\ [][NextNode]_vars

\* C8: a patch never removes from a live node one of the classes mounted,
\* element-found and active, nor its src attribute, even when the new markup
\* has none of them.
C8_PatchKeepsPersistent ==
    [][lastPatch' # NoPatch =>
          /\ \A c \in {"mounted", "element-found", "active"} :
                c \in nodeClasses => c \in nodeClasses'
          /\ nodeAttrs.src \notin {Absent, ""} => nodeAttrs'.src \notin {Absent, ""}]_vars

\* C8 witness: the node was patched to a target without classes and without
\* src, and still has its three persistent classes and its src
C8_KeptThroughPatch ==
    /\ lastPatch # NoPatch
    /\ lastPatch.classes = {} /\ lastPatch.attrs.src = Absent
    /\ {"mounted", "element-found", "active"} \subseteq nodeClasses
    /\ "lazy" \notin nodeClasses
    /\ nodeAttrs.src = "/images/a.png"

(***************************************************************************)
(* Lazy image: lazyLoadImage, the image events and the mutation queue      *)
(***************************************************************************)

ImageFrame == UNCHANGED <<navVars, lazyVars, mountVars, bindVars, nodeVars>>

\* lazyLoadImage, lines 559-582: let finalSrc = base + extension, for the
\* data-src of the image on a display with devicePixelRatio 1 and above 1
ImageUrls == {"/images/anime/1.jpg", "/images/anime/1@2.jpg"}

\* emptyPixel(), lines 552-554
emptyPixel ==
    "data:image/png;base64,iVBORw0KGgoAAAANSUhEUgAAAAEAAAABCAQAAAC1HAwCAAAAC0lEQVR42mNkYAAAAAYAAjCB0C8AAAAASUVORK5CYII="

\* A lazy image as the server rendered it: data-src and no src, no marker
InitImage ==
    /\ InitNav /\ cap = 0 /\ LazyIdle /\ MountIdle /\ BindIdle /\ NodeIdle
    /\ imgClasses = {}
    /\ imgSrc = ""
    /\ imgLoad = "none"
    /\ imgHandlers = FALSE
    /\ imgQueue = <<>>
    /\ imgResolved = 0

\* element.src = finalSrc: the src property reads back as the absolute URL
AbsoluteUrl(url) == "https://notify.moe" \o url

\* lazyLoadImage, line 584
SrcDiffers(src, finalSrc) ==
    /\ src # finalSrc
    /\ src # "https:" \o finalSrc
    /\ src # "https://notify.moe" \o finalSrc

\* element.naturalWidth === 0: the browser has no decoded image for the src
NaturalWidthIsZero(load) == load \notin {"available", "loaded"}

\* Diff.mutations.queue(() => element.classList.add / remove (class))
Queue(q, op, class) == Append(q, <<op, class>>)

\* The "became visible" callback of the image, lines 558-615. finalSrc is the
\* URL computed on lines 559-582, color is element.dataset.color, and
\* available says that the browser has the image of a new src at hand
ImageBecameVisible(finalSrc, color, available) ==
    /\ imgResolved < MaxResolved
    /\ imgResolved' = imgResolved + 1
    /\ LET differs == SrcDiffers(imgSrc, finalSrc)
           preview == IF differs /\ color
                      THEN Queue(imgQueue, "add", "element-color-preview") ELSE imgQueue
           swapped == IF differs THEN Queue(preview, "remove", "element-found") ELSE imgQueue
           load == IF differs THEN (IF available THEN "available" ELSE "loading") ELSE imgLoad
       IN  /\ imgSrc' = IF differs THEN AbsoluteUrl(finalSrc) ELSE imgSrc
           /\ imgLoad' = load
           /\ IF NaturalWidthIsZero(load)
              THEN /\ imgHandlers' = TRUE
                   /\ imgQueue' = swapped
              ELSE /\ imgQueue' = Queue(swapped, "add", "element-found")
                   /\ UNCHANGED imgHandlers
    /\ UNCHANGED imgClasses
    /\ ImageFrame

\* The load event of the image; element.onload, lines 597-603
ImageLoad ==
    /\ imgLoad \in {"loading", "available"}
    /\ imgLoad' = "loaded"
    /\ imgQueue' = IF imgHandlers /\ imgSrc # emptyPixel
                   THEN Queue(imgQueue, "add", "element-found") ELSE imgQueue
    /\ UNCHANGED <<imgClasses, imgSrc, imgHandlers, imgResolved>>
    /\ ImageFrame

\* The error event of the image; element.onerror, lines 605-611
ImageError ==
    /\ imgLoad = "loading"
    /\ imgLoad' = "broken"
    /\ imgQueue' = IF imgHandlers /\ "element-found" \notin imgClasses
                   THEN Queue(imgQueue, "add", "element-not-found") ELSE imgQueue
    /\ UNCHANGED <<imgClasses, imgSrc, imgHandlers, imgResolved>>
    /\ ImageFrame

RECURSIVE ApplyMutations(_, _)
\* The mutation scheduler applies the pending mutations in enqueue order
ApplyMutations(classes, q) ==
    IF q = <<>> THEN classes
    ELSE ApplyMutations(IF q[1][1] = "add" THEN classes \cup {q[1][2]}
                        ELSE classes \ {q[1][2]}, Tail(q))

\* The flush of the mutation scheduler, once per animation frame
ImageFlush ==
    /\ imgQueue # <<>>
    /\ imgClasses' = ApplyMutations(imgClasses, imgQueue)
    /\ imgQueue' = <<>>
    /\ UNCHANGED <<imgSrc, imgLoad, imgHandlers, imgResolved>>
    /\ ImageFrame

\* A patch reconciles the image with markup that carries none of the markers
ImagePatch ==
    /\ imgClasses' = PatchedClasses(imgClasses, {})
    /\ UNCHANGED <<imgSrc, imgLoad, imgHandlers, imgQueue, imgResolved>>
    /\ ImageFrame

NextImage ==
    \/ \E finalSrc \in ImageUrls, color, available \in BOOLEAN :
          ImageBecameVisible(finalSrc, color, available)
    \/ ImageLoad
    \/ ImageError
    \/ ImageFlush
    \/ ImagePatch

SpecImage == InitImage /\ [][NextImage]_vars

\* C22 as stated: in every reachable state, for any sequence of resolutions,
\* load and error events and mutation flushes, no image carries both the
\* element-found and the element-not-found marker.
C22_NeverFoundAndNotFound ==
    ~({"element-found", "element-not-found"} \subseteq imgClasses)
====
